---- MODULE Spec2Model ----
(***************************************************************************)
(* Model of coupled_laplace_problem.cc: the LaplaceProblem<2> driver and   *)
(* the Adapter that couples it to the preCICE solver interface.            *)
(*                                                                         *)
(* Numbers.  All floating point quantities are kept exact as scaled        *)
(* integers:                                                               *)
(*   coordinates   in units of 1/Unit, Unit = 2*NC (NC cells per direction)*)
(*   nodal values  in units of 1/NC^2  (boundary values, coupling data,    *)
(*                 solution entries)                                       *)
(*   matrix        in units of 1/6     (Q1 Laplace cell matrix)            *)
(*   right side    in units of h^6/144, h = (Right-Left)/NC                *)
(***************************************************************************)
EXTENDS Integers, Sequences, FiniteSets, TLC

(* ------------------------------ bounds --------------------------------- *)
\* Number of global refinements of the hyper cube (the program uses 4).
Refinements == 1
\* Largest number of time windows the coupling configuration may ask for.
MaxWindows == 2
\* Largest amplitude of the data the other participant sends.
MaxData == 2

(* ------------------------- program constants --------------------------- *)
dim == 2
Left == -1
Right == 1
interface_boundary_id == 1
ReferenceStep == 10

config_file == "precice-config.xml"
participant_name == "laplace-solver"
mesh_name == "original-mesh"
write_data_name == "dummy"
read_data_name == "boundary-data"

(* ------------------------------- helpers ------------------------------- *)
Range(f) == {f[x] : x \in DOMAIN f}

Min(S) == CHOOSE x \in S : \A y \in S : x <= y

\* The elements of a finite set of integers in ascending order, 0-based:
\* the iteration order of IndexSet and of std::map.
RECURSIVE Ascending(_)
Ascending(S) ==
  IF S = {} THEN <<>> ELSE <<Min(S)>> \o Ascending(S \ {Min(S)})

ZeroBased(s) == [i \in 0..(Len(s) - 1) |-> s[i + 1]]

RECURSIVE Sum(_, _)
Sum(f, S) ==
  IF S = {} THEN 0
  ELSE LET x == CHOOSE y \in S : TRUE IN f[x] + Sum(f, S \ {x})

(* ------------------------------- the mesh ------------------------------ *)
\* GridGenerator::hyper_cube followed by refine_global(n): every cell is
\* replaced by its four children, in the order of the parent cells.
RECURSIVE Children(_)
Children(cells) ==
  IF cells = <<>> THEN <<>>
  ELSE LET c == Head(cells)
       IN << <<2 * c[1], 2 * c[2]>>, <<2 * c[1] + 1, 2 * c[2]>>,
             <<2 * c[1], 2 * c[2] + 1>>, <<2 * c[1] + 1, 2 * c[2] + 1>> >>
          \o Children(Tail(cells))

RECURSIVE RefineGlobal(_)
RefineGlobal(n) ==
  IF n = 0 THEN << <<0, 0>> >> ELSE Children(RefineGlobal(n - 1))

NC == 2 ^ Refinements
Unit == 2 * NC
ActiveCells == RefineGlobal(Refinements)
Vertices == (0..NC) \X (0..NC)

\* Coordinate of the k-th half step from the left/lower side, times Unit.
Coordinate(k) == Left * Unit + k * (Right - Left)

\* GeometryInfo<2>: vertex i of a cell, the two vertices of face f.
CellVertex(c, i) == <<c[1] + (i % 2), c[2] + (i \div 2)>>
FaceVertices(c, f) ==
  CASE f = 0 -> {CellVertex(c, 0), CellVertex(c, 2)}
    [] f = 1 -> {CellVertex(c, 1), CellVertex(c, 3)}
    [] f = 2 -> {CellVertex(c, 0), CellVertex(c, 1)}
    [] f = 3 -> {CellVertex(c, 2), CellVertex(c, 3)}

\* Variant: the two coordinates of the center exchanged.
FaceCenterExchanged(c, f) ==
  CASE f = 0 -> <<Coordinate(2 * c[2] + 1), Coordinate(2 * c[1])>>
    [] f = 1 -> <<Coordinate(2 * c[2] + 1), Coordinate(2 * c[1] + 2)>>
    [] f = 2 -> <<Coordinate(2 * c[2]), Coordinate(2 * c[1] + 1)>>
    [] f = 3 -> <<Coordinate(2 * c[2] + 2), Coordinate(2 * c[1] + 1)>>

\* face->center(), times Unit.
FaceCenter(c, f) ==
  CASE f = 0 -> <<Coordinate(2 * c[1]), Coordinate(2 * c[2] + 1)>>
    [] f = 1 -> <<Coordinate(2 * c[1] + 2), Coordinate(2 * c[2] + 1)>>
    [] f = 2 -> <<Coordinate(2 * c[1] + 1), Coordinate(2 * c[2])>>
    [] f = 3 -> <<Coordinate(2 * c[1] + 1), Coordinate(2 * c[2] + 2)>>

AtBoundary(c, f) ==
  CASE f = 0 -> c[1] = 0
    [] f = 1 -> c[1] = NC - 1
    [] f = 2 -> c[2] = 0
    [] f = 3 -> c[2] = NC - 1

BoundaryFaces == {cf \in Range(ActiveCells) \X (0..3) : AtBoundary(cf[1], cf[2])}

\* Support point of a vertex (MappingQ1), times Unit.
SupportPoint(v) == <<Coordinate(2 * v[1]), Coordinate(2 * v[2])>>

(* ----------------------- degrees of freedom ---------------------------- *)
\* DoFHandler::distribute_dofs for FE_Q(1): one DoF per vertex, numbered
\* in the order in which the active cells meet their vertices.
RECURSIVE FirstVisits(_, _)
FirstVisits(visits, seen) ==
  IF visits = <<>> THEN seen
  ELSE FirstVisits(Tail(visits),
                   IF Head(visits) \in Range(seen) THEN seen
                   ELSE Append(seen, Head(visits)))

CellOrderNumbering ==
  LET visits == [k \in 1..(4 * Len(ActiveCells)) |->
                   CellVertex(ActiveCells[((k - 1) \div 4) + 1], (k - 1) % 4)]
      order == FirstVisits(visits, <<>>)
  IN [v \in Vertices |-> (CHOOSE k \in 1..Len(order) : order[k] = v) - 1]

n_dofs == Cardinality(Vertices)
Dofs == 0..(n_dofs - 1)

\* The enumeration is the library's: the model admits the cell order and
\* its reverse.
DofNumberings ==
  {CellOrderNumbering, [v \in Vertices |-> n_dofs - 1 - CellOrderNumbering[v]]}

\* cell->get_dof_indices
LocalDofIndices(nm, c) == [i \in 0..3 |-> nm[CellVertex(c, i)]]

\* DoFTools::make_sparsity_pattern: the pairs of DoFs that share a cell.
MakeSparsityPattern(nm) ==
  {<<LocalDofIndices(nm, c)[i], LocalDofIndices(nm, c)[j]>> :
     c \in Range(ActiveCells), i \in 0..3, j \in 0..3}

VertexOfDof(nm, d) == CHOOSE v \in Vertices : nm[v] = d

\* DoFTools::extract_boundary_dofs / the DoFs interpolate_boundary_values
\* visits: the DoFs on the boundary faces that carry the given id.
BoundaryDofs(nm, boundary_id, id) ==
  {nm[v] : v \in UNION {FaceVertices(cf[1], cf[2]) :
                          cf \in {g \in DOMAIN boundary_id : boundary_id[g] = id}}}

(* --------------------------- the Laplace problem ------------------------ *)
\* RightHandSide<dim>::value summed by QGauss(2) against the shape function
\* of local vertex i: cell_rhs(i) in units of h^6/144.  With M the cell
\* midpoint in units of h/2, the two Gauss points of one direction give
\* 9M^4 + 18M^2 + 1 (+/-) 4M(3M^2 + 1), + on the side of the vertex.
GaussMoment(M, side) ==
  9 * M * M * M * M + 18 * M * M + 1 + side * 4 * M * (3 * M * M + 1)

CellRhs(c, i) ==
  LET Mx == Coordinate(2 * c[1] + 1) \div (Right - Left)
      My == Coordinate(2 * c[2] + 1) \div (Right - Left)
  IN GaussMoment(Mx, IF i % 2 = 1 THEN 1 ELSE -1)
     + GaussMoment(My, IF i \div 2 = 1 THEN 1 ELSE -1)

\* cell_matrix(i, j) = sum_q grad phi_i . grad phi_j JxW, in units of 1/6.
CellMatrix(i, j) ==
  IF i = j THEN 4
  ELSE IF (i % 2 # j % 2) /\ (i \div 2 # j \div 2) THEN -2 ELSE -1

\* What the cell loop of assemble_system adds to the global matrix and to
\* the global right-hand side, for each enumeration of the DoFs.
CellLoopMatrix ==
  [nm \in DofNumberings |->
     [rc \in MakeSparsityPattern(nm) |->
        LET hits == {t \in Range(ActiveCells) \X (0..3) \X (0..3) :
                       /\ LocalDofIndices(nm, t[1])[t[2]] = rc[1]
                       /\ LocalDofIndices(nm, t[1])[t[3]] = rc[2]}
        IN Sum([t \in hits |-> CellMatrix(t[2], t[3])], hits)]]

CellLoopRhs ==
  [nm \in DofNumberings |->
     [r \in Dofs |->
        LET hits == {t \in Range(ActiveCells) \X (0..3) :
                       LocalDofIndices(nm, t[1])[t[2]] = r}
        IN Sum([t \in hits |-> CellRhs(t[1], t[2])], hits)]]

\* BoundaryValues<dim>::value = p.square(), in units of 1/NC^2.
BoundaryValue(v) ==
  (SupportPoint(v)[1] * SupportPoint(v)[1]
     + SupportPoint(v)[2] * SupportPoint(v)[2]) \div 4

\* One unit of (matrix entry * nodal value) in units of the right-hand side.
RhsPerValue == (24 * NC * NC * NC * NC) \div ((Right - Left) ^ 6)

(* -------------------------------- state -------------------------------- *)
VARIABLES
  pc,                \* the statement of main / LaplaceProblem::run to execute
  triangulation,     \* active cells and the boundary id of each boundary face
  dof_handler,       \* the enumeration of the DoFs: vertex -> global index
  sparsity_pattern,
  system_matrix,
  system_rhs,
  solution,
  dummy_vector,
  boundary_data,     \* std::map<types::global_dof_index, double>
  adapter,           \* the private members of Adapter
  precice,           \* the coupling library: configuration and state
  files,             \* the files written so far: name -> content
  calls              \* history: the calls made so far, in order

vars == <<pc, triangulation, dof_handler, sparsity_pattern, system_matrix,
          system_rhs, solution, dummy_vector, boundary_data, adapter, precice,
          files, calls>>

Call(op, win, res) == [op |-> op, win |-> win, res |-> res]

(* -------------------------- the coupling library ----------------------- *)
\* What precice-config.xml and the other participant decide.  hasRead and
\* hasWrite: whether the mesh uses the read and the write data; writeInitial:
\* whether actionWriteInitialData is required; maxWindows: the number of
\* time windows; everyWindow: data is exchanged in every time window;
\* amplitudes: the data the other participant may send.
Configurations(windows, every, amplitudes) ==
  {c \in [hasRead : BOOLEAN, hasWrite : BOOLEAN, writeInitial : BOOLEAN,
          maxWindows : windows, everyWindow : every,
          amplitudes : {amplitudes}] : c.writeInitial => c.hasWrite}

\* precice::SolverInterface after its constructor.
SolverInterface(config) ==
  [config |-> config,
   phase |-> "constructed",
   timeWindow |-> 0,
   actionWriteInitialData |-> config.writeInitial,
   meshVertices |-> <<>>,
   writeBuffer |-> <<>>,
   readBuffer |-> <<>>,
   readAvailable |-> FALSE,
   writeRequired |-> FALSE]

getMeshID(name) == 0
getDataID(name) == IF name = read_data_name THEN 0 ELSE 1
hasData(p, name) ==
  IF name = read_data_name THEN p.config.hasRead
  ELSE name = write_data_name /\ p.config.hasWrite

isCouplingOngoing(p) ==
  p.phase # "finalized" /\ p.timeWindow < p.config.maxWindows

\* The answers the library may hold, after initializeData or advance, for
\* isReadDataAvailable and for isWriteDataRequired.
ReadAnswers(p) ==
  IF ~p.config.hasRead THEN {FALSE}
  ELSE IF p.config.everyWindow THEN {TRUE} ELSE BOOLEAN
WriteAnswers(p) == IF p.config.everyWindow THEN {TRUE} ELSE BOOLEAN

\* The data of the other participant, by vertex id.
PartnerData(amplitude, n) == [id \in 0..(n - 1) |-> amplitude * (id + 1)]

(* ------------------------------ the adapter ---------------------------- *)
\* coupling_dofs.begin() + i, data.begin() + i: IndexSet and std::map both
\* iterate in ascending order.
NthElement(S, i) == Ascending(S)[i + 1]

\* Variant: the DoFs visited from the last to the first.
format_deal_to_precice_backwards(a, deal_to_precice) ==
  [i \in DOMAIN a.write_data |->
     IF i < a.n_interface_nodes
     THEN deal_to_precice[NthElement(a.coupling_dofs, a.n_interface_nodes - 1 - i)]
     ELSE a.write_data[i]]

\* Adapter::format_deal_to_precice: the new write_data.
format_deal_to_precice(a, deal_to_precice) ==
  [i \in DOMAIN a.write_data |->
     IF i < a.n_interface_nodes
     THEN deal_to_precice[NthElement(a.coupling_dofs, i)]
     ELSE a.write_data[i]]

\* Variant: the array index runs one ahead of the DoF iterator.
format_precice_to_deal_shifted(a, precice_to_deal) ==
  LET position(d) ==
        CHOOSE i \in 0..(a.n_interface_nodes - 1) :
          NthElement(a.coupling_dofs, i) = d
  IN [d \in DOMAIN precice_to_deal |->
        IF d \in a.coupling_dofs
        THEN a.read_data[(position(d) + 1) % a.n_interface_nodes]
        ELSE precice_to_deal[d]]

\* Adapter::format_precice_to_deal: the new precice_to_deal.
format_precice_to_deal(a, precice_to_deal) ==
  LET position(d) ==
        CHOOSE i \in 0..(a.n_interface_nodes - 1) :
          NthElement(a.coupling_dofs, i) = d
  IN [d \in DOMAIN precice_to_deal |->
        IF d \in a.coupling_dofs THEN a.read_data[position(d)]
        ELSE precice_to_deal[d]]

\* for (auto i : coupling_dofs) data.insert({i, 0}): insert keeps the
\* value of a key that is already present.
InsertCouplingDofs(data, coupling_dofs) ==
  [d \in (DOMAIN data) \cup coupling_dofs |->
     IF d \in DOMAIN data THEN data[d] ELSE 0]

\* Variant: the iterator is never advanced.
CopyReadDataStuck(a, data) ==
  [d \in DOMAIN data |->
     IF d = Min(DOMAIN data) /\ a.n_interface_nodes > 0
     THEN a.read_data[a.n_interface_nodes - 1]
     ELSE data[d]]

\* auto dof_component = data.begin();
\* for (i < n_interface_nodes) data[dof_component->first] = read_data[i];
CopyReadData(a, data) ==
  LET position(d) == CHOOSE i \in 0..(Cardinality(DOMAIN data) - 1) :
                       NthElement(DOMAIN data, i) = d
  IN [d \in DOMAIN data |->
        IF position(d) < a.n_interface_nodes THEN a.read_data[position(d)]
        ELSE data[d]]

\* std::vector::resize(n, value)
Resize(vec, n, value) ==
  [i \in 0..(n - 1) |-> IF i \in DOMAIN vec THEN vec[i] ELSE value]

\* interface_nodes_positions: [x0, y0, x1, y1, ...] in the order of
\* coupling_dofs.
InterfaceNodesPositions(nm, coupling_dofs) ==
  [k \in 0..(dim * Cardinality(coupling_dofs) - 1) |->
     SupportPoint(VertexOfDof(nm, NthElement(coupling_dofs, k \div dim)))[(k % dim) + 1]]

(* ------------------ the statements of the adapter ---------------------- *)
\* The state an Adapter member function works on: the adapter's members,
\* the coupling library, the map and the vector passed by reference, and
\* the history.  env holds the arguments passed by const reference and what
\* the library learns during the call: whether read data has arrived
\* (avail, amplitude) and whether write data is required next (required).
Log(s, op, res) ==
  [s EXCEPT !.calls = Append(@, Call(op, s.precice.timeWindow, res))]

\* The data of the other participant arrives (initializeData, advance).
Receive(p, env) ==
  [p EXCEPT !.readAvailable = env.avail,
            !.writeRequired = env.required,
            !.readBuffer = IF env.avail
                           THEN PartnerData(env.amplitude,
                                            Cardinality(DOMAIN p.meshVertices) \div dim)
                           ELSE @]

Exec(s, op, env) ==
  LET a == s.adapter
      p == s.precice
      n == a.n_interface_nodes
  IN CASE op = "getIDs" ->
            [s EXCEPT !.adapter =
               [a EXCEPT !.mesh_id = getMeshID(mesh_name),
                         !.read_data_id = IF hasData(p, read_data_name)
                                          THEN getDataID(read_data_name) ELSE @,
                         !.write_data_id = IF hasData(p, write_data_name)
                                           THEN getDataID(write_data_name) ELSE @]]
       [] op = "extract_coupling_dofs" ->
            LET dofs == BoundaryDofs(env.dof_handler, env.boundary_id,
                                     interface_boundary_id)
                m == Cardinality(dofs)
            IN [s EXCEPT !.adapter =
                  [a EXCEPT !.coupling_dofs = dofs,
                            !.n_interface_nodes = m,
                            !.write_data = Resize(@, m, 0),
                            !.read_data = Resize(@, m, 0),
                            !.interface_nodes_ids = Resize(@, m, 0)],
                         !.data = InsertCouplingDofs(@, dofs)]
       [] op = "precice.setMeshVertices" ->
            Log([s EXCEPT !.precice.meshVertices =
                            InterfaceNodesPositions(env.dof_handler, a.coupling_dofs),
                          !.adapter.interface_nodes_ids = [i \in 0..(n - 1) |-> i]],
                op, TRUE)
       [] op = "precice.initialize" ->
            Log([s EXCEPT !.precice.phase = "initialized"], op, TRUE)
       [] op = "precice.isActionRequired" ->
            Log(s, op, p.actionWriteInitialData)
       [] op = "format_deal_to_precice" ->
            Log([s EXCEPT !.adapter.write_data =
                            format_deal_to_precice(a, env.deal_to_precice)],
                op, TRUE)
       [] op = "precice.writeBlockScalarData" ->
            Log([s EXCEPT !.precice.writeBuffer =
                            [id \in {a.interface_nodes_ids[i] : i \in 0..(n - 1)} |->
                               a.write_data[CHOOSE i \in 0..(n - 1) :
                                              a.interface_nodes_ids[i] = id]]],
                op, TRUE)
       [] op = "precice.markActionFulfilled" ->
            Log([s EXCEPT !.precice.actionWriteInitialData = FALSE], op, TRUE)
       [] op = "precice.initializeData" ->
            Log([s EXCEPT !.precice =
                   [Receive(p, env) EXCEPT !.phase = "dataInitialized"]], op, TRUE)
       [] op = "precice.isWriteDataRequired" ->
            Log(s, op, p.writeRequired)
       [] op = "precice.advance" ->
            Log([s EXCEPT !.precice =
                   [Receive(p, env) EXCEPT !.timeWindow = @ + 1]], op, TRUE)
       [] op = "precice.isReadDataAvailable" ->
            Log(s, op, p.readAvailable)
       [] op = "precice.readBlockScalarData" ->
            Log([s EXCEPT !.adapter.read_data =
                            [i \in DOMAIN a.read_data |->
                               IF i < n THEN p.readBuffer[a.interface_nodes_ids[i]]
                               ELSE a.read_data[i]]],
                op, TRUE)
       [] op = "copy_read_data" ->
            [s EXCEPT !.data = CopyReadData(a, s.data)]
       [] op = "format_precice_to_deal" ->
            Log([s EXCEPT !.precice_to_deal =
                            format_precice_to_deal(a, s.precice_to_deal)],
                op, TRUE)
       [] op = "precice.finalize" ->
            Log([s EXCEPT !.precice.phase = "finalized"], op, TRUE)

RECURSIVE Run(_, _, _)
Run(s, statements, env) ==
  IF statements = <<>> THEN s
  ELSE Run(Exec(s, Head(statements), env), Tail(statements), env)

\* Variant: initializeData moved inside the branch that writes initial data.
InitializeStatementsDataInsideIf(action, avail) ==
  <<"getIDs", "extract_coupling_dofs", "precice.setMeshVertices",
    "precice.initialize", "precice.isActionRequired">>
  \o (IF action
      THEN <<"format_deal_to_precice", "precice.writeBlockScalarData",
             "precice.markActionFulfilled", "precice.initializeData">>
      ELSE <<>>)
  \o <<"precice.isReadDataAvailable">>
  \o (IF avail
      THEN <<"precice.readBlockScalarData", "copy_read_data",
             "format_precice_to_deal">>
      ELSE <<>>)

\* The statements Adapter::initialize executes when the library answers
\* isActionRequired with `action` and isReadDataAvailable with `avail`.
InitializeStatements(action, avail) ==
  <<"getIDs", "extract_coupling_dofs", "precice.setMeshVertices",
    "precice.initialize", "precice.isActionRequired">>
  \o (IF action
      THEN <<"format_deal_to_precice", "precice.writeBlockScalarData",
             "precice.markActionFulfilled">>
      ELSE <<>>)
  \o <<"precice.initializeData", "precice.isReadDataAvailable">>
  \o (IF avail
      THEN <<"precice.readBlockScalarData", "copy_read_data",
             "format_precice_to_deal">>
      ELSE <<>>)

\* Variant: the data is written whenever the mesh uses it, required or not.
AdvanceStatementsAlwaysWrite(hasWrite, required, avail) ==
  (IF hasWrite
   THEN <<"precice.isWriteDataRequired", "format_deal_to_precice",
          "precice.writeBlockScalarData">>
   ELSE <<>>)
  \o <<"precice.advance", "precice.isReadDataAvailable">>
  \o (IF avail
      THEN <<"precice.readBlockScalarData", "copy_read_data",
             "format_precice_to_deal">>
      ELSE <<>>)

\* The statements Adapter::advance executes when the library answers
\* hasData(write_data_name) with `hasWrite`, isWriteDataRequired with
\* `required` and isReadDataAvailable with `avail`.
AdvanceStatements(hasWrite, required, avail) ==
  (IF hasWrite
   THEN <<"precice.isWriteDataRequired">>
        \o (IF required
            THEN <<"format_deal_to_precice", "precice.writeBlockScalarData">>
            ELSE <<>>)
   ELSE <<>>)
  \o <<"precice.advance", "precice.isReadDataAvailable">>
  \o (IF avail
      THEN <<"precice.readBlockScalarData", "copy_read_data",
             "format_precice_to_deal">>
      ELSE <<>>)

\* Variant: a destructor that leaves the library alone.
DestructorStatementsEmpty == <<>>

\* Adapter::~Adapter
DestructorStatements == <<"precice.finalize">>

(* ---------------------------- linear algebra --------------------------- *)
\* MatrixTools::apply_boundary_values for one entry (dof, value) of the
\* map: the row is cleared but for its diagonal, the right-hand side is
\* set, the column is eliminated, the solution entry is set.
EliminateDof(sys, dof, value) ==
  LET diag == sys.matrix[<<dof, dof>>]
      nonzero_diagonals == {d \in Dofs : sys.matrix[<<d, d>>] # 0}
      first_nonzero_diagonal_entry ==
        IF nonzero_diagonals = {} THEN 1
        ELSE sys.matrix[<<Min(nonzero_diagonals), Min(nonzero_diagonals)>>]
      diagonal_entry == IF diag # 0 THEN diag ELSE first_nonzero_diagonal_entry
      new_rhs == value * diagonal_entry * RhsPerValue
  IN [matrix |->
        [rc \in DOMAIN sys.matrix |->
           IF rc = <<dof, dof>> THEN diagonal_entry
           ELSE IF rc[1] = dof \/ rc[2] = dof THEN 0
           ELSE sys.matrix[rc]],
      rhs |->
        [r \in DOMAIN sys.rhs |->
           IF r = dof THEN new_rhs
           ELSE IF <<r, dof>> \in DOMAIN sys.matrix
           THEN sys.rhs[r] - sys.matrix[<<r, dof>>] * value * RhsPerValue
           ELSE sys.rhs[r]],
      solution |-> [sys.solution EXCEPT ![dof] = value]]

RECURSIVE apply_boundary_values(_, _)
apply_boundary_values(boundary_values, sys) ==
  IF DOMAIN boundary_values = {} THEN sys
  ELSE LET dof == Min(DOMAIN boundary_values)
           rest == [d \in (DOMAIN boundary_values) \ {dof} |-> boundary_values[d]]
       IN apply_boundary_values(rest, EliminateDof(sys, dof, boundary_values[dof]))

\* VectorTools::interpolate_boundary_values(dof_handler, 0, BoundaryValues)
interpolate_boundary_values(nm, boundary_id, id) ==
  [d \in BoundaryDofs(nm, boundary_id, id) |-> BoundaryValue(VertexOfDof(nm, d))]

\* The values SolverCG may return in the rows that are coupled to others.
SolveValues == 0..1

\* A row without off-diagonal entries is an equation of its own: the
\* solver returns its quotient, which is kept when it is a whole nodal
\* value (as in every row apply_boundary_values has set).  The other
\* entries are the library's result.
IsDecoupled(matrix, r) ==
  \A rc \in DOMAIN matrix : (rc[1] = r /\ rc[2] # r) => matrix[rc] = 0

SolverCG(matrix, rhs, u) ==
  [r \in DOMAIN rhs |->
     IF /\ IsDecoupled(matrix, r)
        /\ matrix[<<r, r>>] # 0
        /\ rhs[r] % (matrix[<<r, r>>] * RhsPerValue) = 0
     THEN rhs[r] \div (matrix[<<r, r>>] * RhsPerValue)
     ELSE u]

(* ------------------------------ the program ---------------------------- *)
\* The members of an Adapter after its constructor.
Adapter ==
  [mesh_id |-> -1, read_data_id |-> -1, write_data_id |-> -1,
   n_interface_nodes |-> -1, coupling_dofs |-> {},
   interface_nodes_ids |-> <<>>, read_data |-> <<>>, write_data |-> <<>>]

\* The state after the constructors of main: LaplaceProblem<2>
\* laplace_problem, with its Adapter and the SolverInterface in it.
Constructed(config) ==
  /\ pc = "make_grid"
  /\ triangulation = [cells |-> <<>>, boundary_id |-> <<>>]
  /\ dof_handler = <<>>
  /\ sparsity_pattern = {}
  /\ system_matrix = <<>>
  /\ system_rhs = <<>>
  /\ solution = <<>>
  /\ dummy_vector = <<>>
  /\ boundary_data = <<>>
  /\ adapter = Adapter
  /\ precice = SolverInterface(config)
  /\ files = <<>>
  /\ calls = <<>>

Init ==
  \E config \in Configurations(0..MaxWindows, {FALSE}, {1, MaxData}) :
    Constructed(config)

\* The triangulation make_grid builds: the refined hyper cube, the
\* boundary faces whose center has x = 1 marked as the interface.
Grid ==
  [cells |-> ActiveCells,
   boundary_id |->
     [cf \in BoundaryFaces |->
        IF FaceCenter(cf[1], cf[2])[1] = 1 * Unit
        THEN interface_boundary_id ELSE 0]]

\* LaplaceProblem::make_grid
make_grid ==
  /\ pc = "make_grid"
  /\ triangulation' = Grid
  /\ calls' = Append(calls, Call("make_grid", precice.timeWindow, TRUE))
  /\ pc' = "setup_system"
  /\ UNCHANGED <<dof_handler, sparsity_pattern, system_matrix, system_rhs,
                 solution, dummy_vector, boundary_data, adapter, precice, files>>

\* LaplaceProblem::setup_system
setup_system ==
  /\ pc = "setup_system"
  /\ \E nm \in DofNumberings :
       /\ dof_handler' = nm
       /\ sparsity_pattern' = MakeSparsityPattern(nm)
       /\ system_matrix' = [rc \in MakeSparsityPattern(nm) |-> 0]
  /\ solution' = [d \in Dofs |-> 0]
  /\ dummy_vector' = [d \in Dofs |-> 0]
  /\ system_rhs' = [d \in Dofs |-> 0]
  /\ calls' = Append(calls, Call("setup_system", precice.timeWindow, TRUE))
  /\ pc' = "initialize"
  /\ UNCHANGED <<triangulation, boundary_data, adapter, precice, files>>

AdapterState ==
  [adapter |-> adapter, precice |-> precice, data |-> boundary_data,
   precice_to_deal |-> dummy_vector,
   calls |-> calls]

Environment(required, avail, amplitude) ==
  [dof_handler |-> dof_handler, boundary_id |-> triangulation.boundary_id,
   deal_to_precice |-> solution, required |-> required, avail |-> avail,
   amplitude |-> amplitude]

Returned(s) ==
  /\ adapter' = s.adapter
  /\ precice' = s.precice
  /\ boundary_data' = s.data
  /\ dummy_vector' = s.precice_to_deal
  /\ calls' = s.calls

\* adapter.initialize(dof_handler, solution, dummy_vector, boundary_data)
initialize ==
  /\ pc = "initialize"
  /\ \E avail \in ReadAnswers(precice), required \in WriteAnswers(precice) :
       \E amplitude \in IF avail THEN precice.config.amplitudes ELSE {0} :
         Returned(Run(Log(AdapterState, "adapter.initialize", TRUE),
                      InitializeStatements(precice.actionWriteInitialData, avail),
                      Environment(required, avail, amplitude)))
  /\ pc' = "while"
  /\ UNCHANGED <<triangulation, dof_handler, sparsity_pattern, system_matrix,
                 system_rhs, solution, files>>

\* Variant: a do-while loop, whose body runs before the first test counts.
do_while ==
  /\ pc = "while"
  /\ calls' = Append(calls, Call("precice.isCouplingOngoing", precice.timeWindow,
                                 isCouplingOngoing(precice)))
  /\ pc' = IF isCouplingOngoing(precice) \/ precice.timeWindow = 0
           THEN "assemble_system" ELSE "return"
  /\ UNCHANGED <<triangulation, dof_handler, sparsity_pattern, system_matrix,
                 system_rhs, solution, dummy_vector, boundary_data, adapter,
                 precice, files>>

\* while (adapter.precice.isCouplingOngoing())
while ==
  /\ pc = "while"
  /\ calls' = Append(calls, Call("precice.isCouplingOngoing", precice.timeWindow,
                                 isCouplingOngoing(precice)))
  /\ pc' = IF isCouplingOngoing(precice) THEN "assemble_system" ELSE "return"
  /\ UNCHANGED <<triangulation, dof_handler, sparsity_pattern, system_matrix,
                 system_rhs, solution, dummy_vector, boundary_data, adapter,
                 precice, files>>

\* LaplaceProblem::assemble_system
AssembledSystem(nm, boundary_id, matrix, rhs, u, data) ==
  LET cell_loop ==
        [matrix |-> [rc \in DOMAIN matrix |-> matrix[rc] + CellLoopMatrix[nm][rc]],
         rhs |-> [r \in DOMAIN rhs |-> rhs[r] + CellLoopRhs[nm][r]],
         solution |-> u]
      boundary_values == interpolate_boundary_values(nm, boundary_id, 0)
  IN apply_boundary_values(data, apply_boundary_values(boundary_values, cell_loop))

assemble_system ==
  /\ pc = "assemble_system"
  /\ LET sys == AssembledSystem(dof_handler, triangulation.boundary_id,
                                system_matrix, system_rhs, solution, boundary_data)
     IN /\ system_matrix' = sys.matrix
        /\ system_rhs' = sys.rhs
        /\ solution' = sys.solution
  /\ calls' = Append(calls, Call("assemble_system", precice.timeWindow, TRUE))
  /\ pc' = "solve"
  /\ UNCHANGED <<triangulation, dof_handler, sparsity_pattern, dummy_vector,
                 boundary_data, adapter, precice, files>>

\* LaplaceProblem::solve
solve ==
  /\ pc = "solve"
  /\ \E u \in SolveValues : solution' = SolverCG(system_matrix, system_rhs, u)
  /\ calls' = Append(calls, Call("solve", precice.timeWindow, TRUE))
  /\ pc' = "output_results"
  /\ UNCHANGED <<triangulation, dof_handler, sparsity_pattern, system_matrix,
                 system_rhs, dummy_vector, boundary_data, adapter, precice, files>>

\* std::ofstream output(name); data_out.write_vtk(output): the file is
\* created or truncated and then holds the solution.
WriteVtk(fs, name, u) ==
  [f \in (DOMAIN fs) \cup {name} |-> IF f = name THEN u ELSE fs[f]]

OutputFileName == IF dim = 2 THEN "solution-2d.vtk" ELSE "solution-3d.vtk"

\* LaplaceProblem::output_results
output_results ==
  /\ pc = "output_results"
  /\ files' = WriteVtk(files, OutputFileName, solution)
  /\ calls' = Append(calls, Call("output_results", precice.timeWindow, TRUE))
  /\ pc' = "advance"
  /\ UNCHANGED <<triangulation, dof_handler, sparsity_pattern, system_matrix,
                 system_rhs, solution, dummy_vector, boundary_data, adapter,
                 precice>>

\* adapter.advance(solution, dummy_vector, 1, boundary_data)
advance ==
  /\ pc = "advance"
  /\ \E avail \in ReadAnswers(precice), required \in WriteAnswers(precice) :
       \E amplitude \in IF avail THEN precice.config.amplitudes ELSE {0} :
         Returned(Run(Log(AdapterState, "adapter.advance", TRUE),
                      AdvanceStatements(hasData(precice, write_data_name),
                                        precice.writeRequired, avail),
                      Environment(required, avail, amplitude)))
  /\ pc' = "while"
  /\ UNCHANGED <<triangulation, dof_handler, sparsity_pattern, system_matrix,
                 system_rhs, solution, files>>

\* run returns, main returns: laplace_problem is destroyed, and with it
\* the adapter.
return ==
  /\ pc = "return"
  /\ Returned(Run(AdapterState, DestructorStatements, Environment(FALSE, FALSE, 0)))
  /\ pc' = "done"
  /\ UNCHANGED <<triangulation, dof_handler, sparsity_pattern, system_matrix,
                 system_rhs, solution, files>>

Next ==
  \/ make_grid
  \/ setup_system
  \/ initialize
  \/ while
  \/ assemble_system
  \/ solve
  \/ output_results
  \/ advance
  \/ return

Spec == Init /\ [][Next]_vars

(* ------------------- the run of the continuous integration ------------- *)
\* The coupled run of the Test step: ReferenceStep time windows, data
\* exchanged in every window.
InitReference ==
  \E config \in Configurations({ReferenceStep}, {TRUE}, {1}) : Constructed(config)

SpecReference == InitReference /\ [][Next]_vars

(* --------------------- the two conversions on their own ---------------- *)
\* Global vectors to convert.
TestVectors ==
  {[d \in Dofs |-> (a * d + b) % (MaxData + 3)] :
     a \in 0..(MaxData + 1), b \in 0..(MaxData + 1)}

\* An initialized adapter, and a global vector v in the place of solution.
InitFormat ==
  \E config \in Configurations({0}, {FALSE}, {1, MaxData}), nm \in DofNumberings,
     v \in TestVectors :
    LET s == Run([adapter |-> Adapter, precice |-> SolverInterface(config),
                  data |-> <<>>, precice_to_deal |-> [d \in Dofs |-> 0],
                  calls |-> <<>>],
                 InitializeStatements(FALSE, FALSE),
                 [dof_handler |-> nm, boundary_id |-> Grid.boundary_id,
                  deal_to_precice |-> v, required |-> FALSE, avail |-> FALSE,
                  amplitude |-> 0])
    IN /\ ~config.hasRead /\ ~config.hasWrite
       /\ pc = "format_deal_to_precice"
       /\ triangulation = Grid
       /\ dof_handler = nm
       /\ sparsity_pattern = MakeSparsityPattern(nm)
       /\ system_matrix = [rc \in MakeSparsityPattern(nm) |-> 0]
       /\ system_rhs = [d \in Dofs |-> 0]
       /\ solution = v
       /\ dummy_vector = s.precice_to_deal
       /\ boundary_data = s.data
       /\ adapter = s.adapter
       /\ precice = s.precice
       /\ files = <<>>
       /\ calls = s.calls

\* format_deal_to_precice(solution)
convert_to_precice ==
  /\ pc = "format_deal_to_precice"
  /\ adapter' = [adapter EXCEPT !.write_data = format_deal_to_precice(adapter, solution)]
  /\ pc' = "supply"
  /\ UNCHANGED <<triangulation, dof_handler, sparsity_pattern, system_matrix,
                 system_rhs, solution, dummy_vector, boundary_data, precice,
                 files, calls>>

\* The flat array comes back as read_data.
supply ==
  /\ pc = "supply"
  /\ adapter' = [adapter EXCEPT !.read_data = adapter.write_data]
  /\ pc' = "format_precice_to_deal"
  /\ UNCHANGED <<triangulation, dof_handler, sparsity_pattern, system_matrix,
                 system_rhs, solution, dummy_vector, boundary_data, precice,
                 files, calls>>

\* format_precice_to_deal(dummy_vector)
convert_to_deal ==
  /\ pc = "format_precice_to_deal"
  /\ dummy_vector' = format_precice_to_deal(adapter, dummy_vector)
  /\ pc' = "formatted"
  /\ UNCHANGED <<triangulation, dof_handler, sparsity_pattern, system_matrix,
                 system_rhs, solution, boundary_data, adapter, precice, files,
                 calls>>

NextFormat == convert_to_precice \/ supply \/ convert_to_deal

SpecFormat == InitFormat /\ [][NextFormat]_vars

(* ======================================================================= *)
(*                              the history                                *)
(* ======================================================================= *)
Positions(op) == {k \in DOMAIN calls : calls[k].op = op}

\* The calls made by the latest call of Adapter::initialize or
\* Adapter::advance, when nothing else has run since.
HandlerStart ==
  LET starts == Positions("adapter.initialize") \cup Positions("adapter.advance")
  IN IF starts = {} THEN 0 ELSE CHOOSE k \in starts : \A j \in starts : j <= k
LastHandler ==
  IF HandlerStart = 0 THEN <<>> ELSE SubSeq(calls, HandlerStart, Len(calls))
Ops(seq) == {seq[k].op : k \in DOMAIN seq}
Place(seq, op) == CHOOSE k \in DOMAIN seq : seq[k].op = op
Count(seq, op) == Cardinality({k \in DOMAIN seq : seq[k].op = op})

\* The calls Adapter::initialize made.
InitializeCalls ==
  IF Positions("adapter.initialize") = {} \/ pc = "initialize" THEN <<>>
  ELSE LET first == Min(Positions("adapter.initialize"))
           later == {k \in Positions("precice.isCouplingOngoing") : k > first}
       IN SubSeq(calls, first, IF later = {} THEN Len(calls) ELSE Min(later) - 1)

InterfaceCalls ==
  {"precice.setMeshVertices", "precice.initialize", "precice.isActionRequired",
   "precice.writeBlockScalarData", "precice.markActionFulfilled",
   "precice.initializeData", "precice.isWriteDataRequired", "precice.advance",
   "precice.isReadDataAvailable", "precice.readBlockScalarData",
   "precice.isCouplingOngoing", "precice.finalize"}

(* ======================================================================= *)
(*                               the claims                                *)
(* ======================================================================= *)

\* C1: run performs make_grid, setup_system, Adapter::initialize once, and
\* then for every isCouplingOngoing that answers true exactly
\* assemble_system, solve, output_results, Adapter::advance in that order;
\* none of the four happens before initialize or after isCouplingOngoing
\* has answered false.
RunOps ==
  {"make_grid", "setup_system", "adapter.initialize", "precice.isCouplingOngoing",
   "assemble_system", "solve", "output_results", "adapter.advance"}
RunCalls == SelectSeq(calls, LAMBDA c : c.op \in RunOps)
Prologue == <<"make_grid", "setup_system", "adapter.initialize">>
LoopBody ==
  <<"precice.isCouplingOngoing", "assemble_system", "solve", "output_results",
    "adapter.advance">>
C1_RunOrder ==
  LET r == RunCalls
  IN /\ \A k \in DOMAIN r :
          /\ k <= 3 => r[k].op = Prologue[k]
          /\ k > 3 => r[k].op = LoopBody[((k - 4) % 5) + 1]
          /\ (k > 4 /\ r[k].op # "precice.isCouplingOngoing")
               => r[k - 1 - ((k - 5) % 5)].res
          /\ (r[k].op = "precice.isCouplingOngoing" /\ ~r[k].res) => k = Len(r)
     /\ pc = "done" => (Len(r) > 3 /\ ~r[Len(r)].res)
C1_Witness ==
  /\ pc = "done"
  /\ Count(calls, "adapter.advance") >= 2
  /\ Count(calls, "adapter.initialize") = 1

\* C5: in Adapter::advance, writeBlockScalarData is called if and only if
\* hasData(write_data_name, mesh_id) and isWriteDataRequired both hold; it
\* then follows format_deal_to_precice of the current solution and comes
\* before precice.advance; readBlockScalarData comes after precice.advance.
AdvanceWritesWhenRequired ==
  pc = "advance" =>
    LET made == SubSeq(calls', Len(calls) + 1, Len(calls'))
        n == adapter.n_interface_nodes
    IN /\ ("precice.writeBlockScalarData" \in Ops(made))
            <=> (hasData(precice, write_data_name) /\ precice.writeRequired)
       /\ Count(made, "precice.advance") = 1
       /\ Count(made, "precice.writeBlockScalarData") <= 1
       /\ Count(made, "precice.readBlockScalarData") <= 1
       /\ "precice.writeBlockScalarData" \in Ops(made) =>
            /\ "format_deal_to_precice" \in Ops(made)
            /\ Place(made, "format_deal_to_precice")
                 < Place(made, "precice.writeBlockScalarData")
            /\ Place(made, "precice.writeBlockScalarData")
                 < Place(made, "precice.advance")
            /\ \A i \in 0..(n - 1) :
                 adapter'.write_data[i] = solution[NthElement(adapter.coupling_dofs, i)]
       /\ "precice.readBlockScalarData" \in Ops(made) =>
            Place(made, "precice.advance") < Place(made, "precice.readBlockScalarData")
C5_AdvanceWrite == [][AdvanceWritesWhenRequired]_vars
C5_Witness ==
  /\ pc = "while"
  /\ precice.timeWindow >= 2
  /\ "precice.writeBlockScalarData" \in Ops(LastHandler)
  /\ "precice.readBlockScalarData" \in Ops(LastHandler)
  /\ \E i \in DOMAIN adapter.write_data : adapter.write_data[i] # 0

\* C6: in Adapter::initialize, initial data is written if and only if the
\* library requires actionWriteInitialData; the action is then marked
\* fulfilled after the write and before initializeData; setMeshVertices
\* comes before precice.initialize; initializeData is called exactly once.
C6_InitializeOrder ==
  LET made == InitializeCalls
  IN made # <<>> =>
       /\ ("precice.writeBlockScalarData" \in Ops(made)) <=> precice.config.writeInitial
       /\ "precice.writeBlockScalarData" \in Ops(made) =>
            /\ Count(made, "precice.markActionFulfilled") = 1
            /\ Place(made, "precice.writeBlockScalarData")
                 < Place(made, "precice.markActionFulfilled")
            /\ Place(made, "precice.markActionFulfilled")
                 < Place(made, "precice.initializeData")
       /\ Count(made, "precice.setMeshVertices") = 1
       /\ Count(made, "precice.initialize") = 1
       /\ Place(made, "precice.setMeshVertices") < Place(made, "precice.initialize")
       /\ Count(made, "precice.initializeData") = 1
       /\ Count(calls, "precice.initializeData") = 1
C6_Witness ==
  /\ pc = "while"
  /\ "precice.markActionFulfilled" \in Ops(InitializeCalls)
  /\ ~precice.actionWriteInitialData

\* C7: in every run that leaves LaplaceProblem::run, precice.finalize is
\* called exactly once, and it is the last call on the coupling interface.
C7_FinalizeLast ==
  /\ pc = "done" =>
       /\ Count(calls, "precice.finalize") = 1
       /\ \A k \in DOMAIN calls :
            (calls[k].op \in InterfaceCalls /\ calls[k].op # "precice.finalize")
              => k < Place(calls, "precice.finalize")
       /\ precice.phase = "finalized"
  /\ pc # "done" => Count(calls, "precice.finalize") = 0
C7_Witness ==
  /\ pc = "done"
  /\ precice.phase = "finalized"
  /\ Count(calls, "precice.advance") >= 1

AfterInitialize == pc \notin {"make_grid", "setup_system", "initialize"}
CouplingDof(i) == NthElement(adapter.coupling_dofs, i)

\* C2: for every i below n_interface_nodes, the coordinates handed to
\* setMeshVertices at position i, write_data[i] filled by
\* format_deal_to_precice and read_data[i] consumed by
\* format_precice_to_deal belong to the i-th coupling DoF in ascending order.
C2_ExchangeOrder ==
  AfterInitialize =>
    \A i \in 0..(adapter.n_interface_nodes - 1) :
      /\ \A k \in 0..(dim - 1) :
           precice.meshVertices[dim * i + k]
             = SupportPoint(VertexOfDof(dof_handler, CouplingDof(i)))[k + 1]
      /\ (pc = "while" /\ "precice.writeBlockScalarData" \in Ops(LastHandler)) =>
           /\ adapter.write_data[i] = solution[CouplingDof(i)]
           /\ precice.writeBuffer[adapter.interface_nodes_ids[i]]
                = solution[CouplingDof(i)]
      /\ "precice.readBlockScalarData" \in Ops(calls) =>
           /\ adapter.read_data[i] = precice.readBuffer[adapter.interface_nodes_ids[i]]
           /\ dummy_vector[CouplingDof(i)] = adapter.read_data[i]
C2_Witness ==
  /\ pc = "while"
  /\ "precice.writeBlockScalarData" \in Ops(LastHandler)
  /\ "precice.readBlockScalarData" \in Ops(LastHandler)
  /\ adapter.n_interface_nodes >= 2
  /\ \A i, j \in DOMAIN adapter.write_data :
       i # j => adapter.write_data[i] # adapter.write_data[j]
  /\ adapter.read_data # adapter.write_data

\* C3: for every global vector v, when the flat array made from v by
\* format_deal_to_precice is supplied as read_data, the vector w filled by
\* format_precice_to_deal has w[d] = v[d] at every coupling DoF d.
C3_RoundTrip ==
  pc = "formatted" => \A d \in adapter.coupling_dofs : dummy_vector[d] = solution[d]
C3_Witness ==
  /\ pc = "formatted"
  /\ \A d, e \in adapter.coupling_dofs : d # e => solution[d] # solution[e]
  /\ \E d \in Dofs \ adapter.coupling_dofs : dummy_vector[d] # solution[d]

\* C4: boundary_data maps exactly the coupling DoFs: empty before
\* initialize; afterwards its key set is coupling_dofs and stays so, every
\* value is 0 until data is read, and after an initialize or advance that
\* read data the value of the i-th coupling DoF is read_data[i].
C4_BoundaryData ==
  /\ ~AfterInitialize => DOMAIN boundary_data = {}
  /\ AfterInitialize =>
       /\ DOMAIN boundary_data = adapter.coupling_dofs
       /\ Cardinality(DOMAIN boundary_data) = adapter.n_interface_nodes
       /\ "precice.readBlockScalarData" \notin Ops(calls) =>
            \A d \in DOMAIN boundary_data : boundary_data[d] = 0
       /\ (pc = "while" /\ "precice.readBlockScalarData" \in Ops(LastHandler)) =>
            \A i \in 0..(adapter.n_interface_nodes - 1) :
              /\ boundary_data[CouplingDof(i)] = adapter.read_data[i]
              /\ boundary_data[CouplingDof(i)]
                   = precice.readBuffer[adapter.interface_nodes_ids[i]]
C4_Witness ==
  /\ pc = "while"
  /\ Count(calls, "precice.readBlockScalarData") >= 2
  /\ "precice.readBlockScalarData" \in Ops(LastHandler)
  /\ \A d, e \in DOMAIN boundary_data : d # e => boundary_data[d] # boundary_data[e]
  /\ \E d \in DOMAIN boundary_data : boundary_data[d] # solution[d]

\* C8: every timestep's solution goes to a file of its own, named by the
\* number of the timestep: after a complete run of at least ReferenceStep
\* timesteps solution-10.vtk exists and holds the solution of that
\* timestep, and the files of the earlier timesteps are still there.
VtkName(n) == "solution-" \o ToString(n) \o ".vtk"
C8_FilePerTimestep ==
  (pc = "done" /\ Count(calls, "output_results") >= ReferenceStep) =>
    /\ \A n \in 1..Count(calls, "output_results") : VtkName(n) \in DOMAIN files
    /\ Count(calls, "output_results") = ReferenceStep =>
         files[VtkName(ReferenceStep)] = solution

\* C9 as claimed: make_grid builds the unit square, and every interface
\* vertex passed to setMeshVertices lies on the boundary of the unit square.
DomainPoints ==
  {SupportPoint(CellVertex(triangulation.cells[k], i)) :
     k \in DOMAIN triangulation.cells, i \in 0..3}
InterfacePoints ==
  {<<precice.meshVertices[dim * i], precice.meshVertices[dim * i + 1]>> :
     i \in 0..((Cardinality(DOMAIN precice.meshVertices) \div dim) - 1)}
InSquare(pt, low, high) ==
  /\ low * Unit <= pt[1] /\ pt[1] <= high * Unit
  /\ low * Unit <= pt[2] /\ pt[2] <= high * Unit
OnSquareBoundary(pt, low, high) ==
  /\ InSquare(pt, low, high)
  /\ pt[1] \in {low * Unit, high * Unit} \/ pt[2] \in {low * Unit, high * Unit}
IsSquare(points, low, high) ==
  /\ \A pt \in points : InSquare(pt, low, high)
  /\ \A a \in {low, high}, b \in {low, high} : <<a * Unit, b * Unit>> \in points
C9_UnitSquare ==
  /\ pc # "make_grid" => IsSquare(DomainPoints, 0, 1)
  /\ AfterInitialize => \A pt \in InterfacePoints : OnSquareBoundary(pt, 0, 1)

\* C9 as amended: make_grid builds the square [-1, 1]^2, and the interface
\* vertices passed to setMeshVertices are the vertices of its face x = 1.
C9_SquareInterface ==
  /\ pc # "make_grid" => IsSquare(DomainPoints, -1, 1)
  /\ AfterInitialize =>
       /\ \A pt \in InterfacePoints :
            OnSquareBoundary(pt, -1, 1) /\ pt[1] = 1 * Unit
       /\ InterfacePoints = {pt \in DomainPoints : pt[1] = 1 * Unit}
C9_Witness ==
  /\ AfterInitialize
  /\ Cardinality(InterfacePoints) = NC + 1
  /\ <<1 * Unit, -1 * Unit>> \in InterfacePoints

\* C10: at the start of every assemble_system of the loop the global matrix
\* and right-hand side carry nothing of earlier timesteps, so the system of
\* a timestep depends only on the mesh and on the current boundary_data.
ZeroMatrix == [rc \in sparsity_pattern |-> 0]
ZeroVector == [d \in Dofs |-> 0]
C10_AssembledFromScratch ==
  /\ pc = "assemble_system" =>
       system_matrix = ZeroMatrix /\ system_rhs = ZeroVector
  /\ pc = "solve" =>
       LET fresh == AssembledSystem(dof_handler, triangulation.boundary_id,
                                    ZeroMatrix, ZeroVector, solution, boundary_data)
       IN system_matrix = fresh.matrix /\ system_rhs = fresh.rhs
====
